---- MODULE Spec2Model ----
(***************************************************************************)
(* watchfs: the event-driven action scheduler.                             *)
(*                                                                         *)
(* One session (watchContext) owns a filesystem watcher, a dispatcher      *)
(* goroutine (onEvent) and, per configured action, an intake goroutine and *)
(* a run goroutine joined by a capacity-1 "run" channel.  The lock         *)
(* registry (actionLocks) is process-wide.  A write to the configuration   *)
(* file cancels the session context and main starts the next session.      *)
(***************************************************************************)
EXTENDS Integers, Sequences, FiniteSets, TLC

\* ------------------------------------------------------------------ bounds
\* Number of reloads (sessions after the first) the model follows.
MaxReloads == 1
\* Largest number of actions of a configuration.
MaxActions == 2
\* Largest number of lock names of an action.
MaxLocks == 2
\* Events the watcher delivers in the session whose history is recorded.
MaxEvents == 3

\* --------------------------------------------------------- program constants
\* action.trigger = make(chan Event, 1)
TriggerCap == 1
\* run := make(chan struct{}, 1)
RunCap == 1
\* time.Tick's channel holds one pending tick.
TickCap == 1

Gens == 0..MaxReloads
ActIds == 1..MaxActions
Pipes == Gens \X ActIds

\* ------------------------------------------------------------------ strings
\* A path or pattern is a tuple of one-character strings.

Lower(c) ==
    CASE c = "G" -> "g"
      [] c = "O" -> "o"
      [] c = "M" -> "m"
      [] c = "D" -> "d"
      [] OTHER -> c

ToLower(s) == [i \in 1..Len(s) |-> Lower(s[i])]

\* strings.TrimSpace
RECURSIVE TrimSpace(_)
TrimSpace(s) ==
    IF s = << >> THEN s
    ELSE IF Head(s) = " " THEN TrimSpace(Tail(s))
    ELSE IF s[Len(s)] = " " THEN TrimSpace(SubSeq(s, 1, Len(s) - 1))
    ELSE s

\* strings.TrimPrefix(s, ".")
TrimDot_Keep(s) == s
TrimDot(s) == IF s # << >> /\ Head(s) = "." THEN Tail(s) ELSE s

\* filepath.Ext: the suffix beginning at the final dot in the final element of
\* path; empty if there is no dot.
RECURSIVE FilepathExt(_)
FilepathExt(p) ==
    IF p = << >> THEN << >>
    ELSE LET n == Len(p) IN
         IF p[n] = "/" THEN << >>
         ELSE IF p[n] = "." THEN <<".">>
         ELSE LET r == FilepathExt(SubSeq(p, 1, n - 1)) IN
              IF r = << >> THEN << >> ELSE Append(r, p[n])

\* ext(path)
Ext(path) == ToLower(TrimDot(FilepathExt(path)))

\* filepath.Match for patterns of literals, '?' and '*' ('*' and '?' match
\* no separator).
RECURSIVE GlobMatch(_, _)
GlobMatch(pat, name) ==
    IF pat = << >> THEN name = << >>
    ELSE IF Head(pat) = "*"
         THEN \/ GlobMatch(Tail(pat), name)
              \/ /\ name # << >>
                 /\ Head(name) # "/"
                 /\ GlobMatch(pat, Tail(name))
    ELSE IF name = << >> THEN FALSE
    ELSE IF Head(pat) = "?" THEN Head(name) # "/" /\ GlobMatch(Tail(pat), Tail(name))
    ELSE Head(pat) = Head(name) /\ GlobMatch(Tail(pat), Tail(name))

\* ------------------------------------------------------------------ filter
\* A Go map that may be nil.
NilMap == [nil |-> TRUE, keys |-> {}]
MakeMap(ks) == [nil |-> FALSE, keys |-> ks]

\* parseOp
OpNames == {"create", "write", "remove", "rename", "chmod"}

SeqToSet(s) == {s[i] : i \in 1..Len(s)}

\* Filter.makeCanonical: the user-facing lists become the lookup maps; a map
\* stays nil when its list is empty.
FilterCanonical(exts, ops, paths) ==
    [extensions |-> IF Len(exts) > 0
                    THEN MakeMap({ToLower(TrimDot(TrimSpace(exts[i]))) : i \in 1..Len(exts)})
                    ELSE NilMap,
     ops        |-> IF Len(ops) > 0
                    THEN MakeMap({o \in SeqToSet(ops) : o \in OpNames})
                    ELSE NilMap,
     Paths      |-> paths]

EmptyFilter == FilterCanonical(<< >>, << >>, << >>)

\* The loop of Filter.Match over f.Paths: pathsOK starts as len(f.Paths) > 0
\* and is set to true at the first pattern that does NOT match.
PathsOK(f, e) ==
    LET start == Len(f.Paths) > 0 IN
    IF \E i \in 1..Len(f.Paths) : ~GlobMatch(f.Paths[i], e.Name)
    THEN TRUE
    ELSE start

\* empty := f.extensions == nil && f.ops == nil && len(f.Paths) == 0
FilterEmpty_Always(f) == TRUE
FilterEmpty_Never(f) == FALSE
FilterEmpty(f) == f.extensions.nil /\ f.ops.nil /\ Len(f.Paths) = 0

\* Filter.Match
FilterMatch(f, e) ==
    LET ext          == ToLower(Ext(e.Name))
        extensionsOk == ~f.extensions.nil /\ ext \in f.extensions.keys
        opsOk        == ~f.ops.nil /\ e.Op \in f.ops.keys
        pathsOK      == PathsOK(f, e)
        empty        == FilterEmpty(f)
    IN [all |-> empty \/ (extensionsOk /\ opsOk /\ pathsOK),
        any |-> extensionsOk \/ opsOk \/ pathsOK]

\* Action.Ignore == nil
NoIgnore == [present |-> FALSE, f |-> EmptyFilter]
SomeIgnore(f) == [present |-> TRUE, f |-> f]

\* The first early return of Action.Match.
FilterGate(m) == m.all \/ m.any
\* The test on the ignore filter's result in Action.Match.
IgnoreGate_Any(m) == m.all \/ m.any
IgnoreGate(m) == m.all /\ m.any

\* Action.Match
ActionMatch(a, e) ==
    IF ~FilterGate(FilterMatch(a.Filter, e)) THEN FALSE
    ELSE IF a.Ignore.present /\ IgnoreGate(FilterMatch(a.Ignore.f, e)) THEN FALSE
    ELSE TRUE


\* ------------------------------------------------------------- configuration
\* filepath.Abs of a relative path joins it to the working directory.
Cwd == <<"/">>
Abs(p) == IF p # << >> /\ Head(p) = "/" THEN p ELSE Cwd \o p

\* An Action as configured (the user-facing fields and the backend kind).
Act(kind, delay, locks, filter, ignore, ignoreSignals) ==
    [kind |-> kind, delay |-> delay, Locks |-> locks, Filter |-> filter,
     Ignore |-> ignore, IgnoreSignals |-> ignoreSignals]

\* Action.makeCanonical: a.tick is set only when a.delay > 0.
HasTick_Always(a) == TRUE
HasTick(a) == a.delay > 0

\* The kinds whose Run starts an external process through exec.CommandContext.
ProcessKinds == {"exec", "shell", "dockerRun"}

\* A configuration after makeCanonical.
Configuration(filter, ignores, ignoreWatch, actions, self, path) ==
    [Filter |-> filter, Ignore |-> ignores, IgnoreWatch |-> ignoreWatch,
     Actions |-> actions, Self |-> self, configPathAbs |-> Abs(path)]

\* shouldNotify
ShouldNotify(c, e) ==
    IF ~FilterGate(FilterMatch(c.Filter, e)) THEN FALSE
    ELSE IF \E i \in 1..Len(c.Ignore) : IgnoreGate(FilterMatch(c.Ignore[i], e)) THEN FALSE
    ELSE IF \E i \in 1..Len(c.IgnoreWatch) : GlobMatch(c.IgnoreWatch[i], e.Name) THEN FALSE
    ELSE TRUE

\* The reload test of onEvent: config.Self == nil || *config.Self == true, a
\* write, and the absolute path of the event equal to configPathAbs.
SelfReload_AnyOp(c, e) ==
    /\ c.Self \in {"unset", "true"}
    /\ Abs(e.Name) = c.configPathAbs
SelfReload(c, e) ==
    /\ c.Self \in {"unset", "true"}
    /\ e.Op = "write"
    /\ Abs(e.Name) = c.configPathAbs

\* ------------------------------------------------------------------ signals
\* const defaultSignal = syscall.SIGKILL
DefaultSignal == "SIGKILL"
\* The names parseSignal knows.
ParseSignal ==
    {"SIGABRT", "SIGALRM", "SIGBUS", "SIGFPE", "SIGHUP", "SIGILL", "SIGKILL",
     "SIGPIPE", "SIGQUIT", "SIGSEGV", "SIGTERM", "SIGTRAP"}

\* configuration.makeCanonical: c.signal is parseSignal[c.Signal], the default
\* when the name is not in the table (the empty name included).
ConfigSignal(name) == IF name \in ParseSignal THEN name ELSE DefaultSignal

\* ActionExec.makeCanonical (ActionShell and ActionDockerRun alike): a.signal
\* stays nil for an empty name, else points to parseSignal[a.Signal] or to the
\* default when the name is not in the table.
NilSignal == [nil |-> TRUE, s |-> DefaultSignal]
ActionSignal_Fallback(name) ==
    IF name \in ParseSignal THEN [nil |-> FALSE, s |-> name] ELSE NilSignal
ActionSignal(name) ==
    IF name # "" THEN [nil |-> FALSE, s |-> ConfigSignal(name)] ELSE NilSignal

\* s := config.signal; if a.signal != nil { s = *a.signal }
Resolve_GlobalFirst(asig, csig) == csig
Resolve(asig, csig) == IF ~asig.nil THEN asig.s ELSE csig

\* What Notify answers once the command has a process and signals are ignored.
IgnoredAnswer_Signal(s) == [signalled |-> TRUE, sent |-> s, err |-> FALSE]
IgnoredAnswer(s) == [signalled |-> TRUE, sent |-> "none", err |-> FALSE]

\* ActionExec.Notify, ActionShell.Notify and ActionDockerRun.Notify, for what
\* the call reads in a.command: "nil" (no command yet), "unstarted"
\* (a.command.Process is nil), "live", or "done" (Process.Signal fails on a
\* process that has finished).  ActionHTTPGet.Notify returns false, nil.
BackendNotify(kind, ignoreSignals, asig, csig, command) ==
    IF kind \notin ProcessKinds THEN [signalled |-> FALSE, sent |-> "none", err |-> FALSE]
    ELSE IF command = "nil" THEN [signalled |-> FALSE, sent |-> "none", err |-> FALSE]
    ELSE IF command = "unstarted" THEN [signalled |-> FALSE, sent |-> "none", err |-> FALSE]
    ELSE IF ignoreSignals THEN IgnoredAnswer(Resolve(asig, csig))
    ELSE IF command = "live"
         THEN [signalled |-> TRUE, sent |-> Resolve(asig, csig), err |-> FALSE]
         ELSE [signalled |-> FALSE, sent |-> "none", err |-> TRUE]

\* ---------------------------------------------------------- checked instances
ConfigPath == <<"w", ".", "y">>
GoFilter == FilterCanonical(<< <<"g", "o">> >>, << >>, << >>)

\* Two actions whose lock lists share two names, listed in different orders.
CfgLocks ==
    Configuration(EmptyFilter, << >>, << >>,
        << Act("exec", 0, <<"x", "y">>, GoFilter, NoIgnore, TRUE),
           Act("shell", 0, <<"y", "x">>, GoFilter, NoIgnore, TRUE) >>,
        "false", ConfigPath)

\* One HTTP GET action, watchSelf unset.
CfgHTTP ==
    Configuration(EmptyFilter, << >>, << >>,
        << Act("httpGet", 0, << >>, GoFilter, NoIgnore, FALSE) >>,
        "unset", ConfigPath)

\* One debounced exec action.
CfgDelay ==
    Configuration(EmptyFilter, << >>, << >>,
        << Act("exec", 500, << >>, GoFilter, NoIgnore, FALSE) >>,
        "false", ConfigPath)

\* One container action holding a lock, watchSelf enabled.
CfgDocker ==
    Configuration(EmptyFilter, << >>, << >>,
        << Act("dockerRun", 0, <<"x">>, GoFilter, NoIgnore, TRUE) >>,
        "true", ConfigPath)

\* One exec action that is signalled on changes.
CfgExec ==
    Configuration(EmptyFilter, << >>, << >>,
        << Act("exec", 0, << >>, EmptyFilter, NoIgnore, FALSE) >>,
        "false", ConfigPath)

\* A top-level filter, a list of ignore filters (the first configures only an
\* extension set, the second configures every kind of predicate) and a raw
\* ignore glob, in front of one action that takes every event.
MdOnly == FilterCanonical(<< <<"m", "d">> >>, << >>, << >>)
GoChmod == FilterCanonical(<< <<"g", "o">> >>, <<"chmod">>, << <<"*">> >>)
CfgGate ==
    Configuration(FilterCanonical(<< <<"g", "o">>, <<"m", "d">> >>, << >>, << >>),
        << MdOnly, GoChmod >>, << <<"t", "*">> >>,
        << Act("exec", 0, << >>, EmptyFilter, NoIgnore, TRUE) >>,
        "false", ConfigPath)

\* The scenario whose history is recorded: extensions go and md pass the
\* top-level filter, and one exec action without delay takes go files.
CfgSingle ==
    Configuration(FilterCanonical(<< <<"g", "o">>, <<"m", "d">> >>, << >>, << >>),
        << >>, << >>,
        << Act("exec", 0, << >>, GoFilter, NoIgnore, FALSE) >>,
        "false", ConfigPath)

\* One action whose lock list names the same lock twice.
CfgDup ==
    Configuration(EmptyFilter, << >>, << >>,
        << Act("exec", 0, <<"x", "x">>, GoFilter, NoIgnore, TRUE) >>,
        "false", ConfigPath)

\* Two process actions that name the same lock; the first is signalled on
\* changes.
CfgPair ==
    Configuration(EmptyFilter, << >>, << >>,
        << Act("exec", 0, <<"x">>, GoFilter, NoIgnore, FALSE),
           Act("shell", 0, <<"x">>, GoFilter, NoIgnore, TRUE) >>,
        "false", ConfigPath)

\* Before a session loads it, config holds no action.
NoConfig == Configuration(EmptyFilter, << >>, << >>, << >>, "false", << >>)

\* The configurations are held by name.
ConfigNames == {"locks", "http", "delay", "docker", "exec", "gate", "single", "dup"}
Config(name) ==
    CASE name = "locks" -> CfgLocks
      [] name = "http" -> CfgHTTP
      [] name = "delay" -> CfgDelay
      [] name = "docker" -> CfgDocker
      [] name = "exec" -> CfgExec
      [] name = "gate" -> CfgGate
      [] name = "single" -> CfgSingle
      [] name = "dup" -> CfgDup
      [] name = "pair" -> CfgPair
      [] OTHER -> NoConfig

LockNames == {"x", "y"}

SrcWrite == [Name |-> <<"m", ".", "G", "o">>, Op |-> "write"]
CfgWrite == [Name |-> ConfigPath, Op |-> "write"]
Events == {SrcWrite, CfgWrite}
\* The events the watcher delivers under the httpGet configuration: the
\* configuration file also has its mode changed.
CfgChmod == [Name |-> ConfigPath, Op |-> "chmod"]
HTTPEvents == {SrcWrite, CfgWrite, CfgChmod}
\* The events the watcher delivers under the gate configuration.
GateEvents ==
    {SrcWrite,
     [Name |-> <<"m", ".", "G", "o">>, Op |-> "chmod"],
     [Name |-> <<"r", ".", "m", "d">>, Op |-> "write"],
     [Name |-> <<"a", "/", "b">>, Op |-> "write"],
     [Name |-> <<"t", ".", "g", "o">>, Op |-> "write"]}
\* The events the watcher delivers in the recorded scenario: one the action
\* takes, one that passes shouldNotify and matches no action, one that fails
\* the top-level filter.
SingleEvents ==
    {SrcWrite,
     [Name |-> <<"r", ".", "m", "d">>, Op |-> "write"],
     [Name |-> <<"a", "/", "b">>, Op |-> "write"]}
EventsFor(name) ==
    IF name = "gate" THEN GateEvents
    ELSE IF name = "http" THEN HTTPEvents
    ELSE IF name = "pair" THEN {SrcWrite}
    ELSE IF name = "single" THEN SingleEvents
    ELSE Events


\* ------------------------------------------------- loading the configuration
\* A key of the configuration file: absent from the file, or given with v.
Absent(v) == [set |-> FALSE, v |-> v]
Given(v) == [set |-> TRUE, v |-> v]

\* var config configuration: the zero value of the global.  Actions, ignore
\* filters and exec-map entries are held by their labels.
ZeroConfig ==
    [Actions |-> << >>, Ignore |-> << >>, IgnoreWatch |-> << >>, ExecMap |-> << >>,
     Signal |-> "", signal |-> "nil"]

\* No configuration file, and no flag or argument on the command line.
NoFile ==
    [exists |-> FALSE, actions |-> Absent(<< >>), ignores |-> Absent(<< >>),
     execMap |-> Absent(<< >>), signal |-> Absent("")]
NoFlags == [args |-> "", ignoreExt |-> "", ignore |-> << >>, signal |-> ""]

\* configuration.load: the YAML decoder fills the keys the file gives into the
\* struct it is handed, here the global config, and leaves the others alone.
Decode(c, file) ==
    [c EXCEPT !.Actions = IF file.actions.set THEN file.actions.v ELSE @,
              !.Ignore = IF file.ignores.set THEN file.ignores.v ELSE @,
              !.ExecMap = IF file.execMap.set THEN file.execMap.v ELSE @,
              !.Signal = IF file.signal.set THEN file.signal.v ELSE @]

\* configuration.makeCanonical: the signal is parsed, every entry of ExecMap
\* becomes an action appended to Actions, and ExecMap is set to nil.
MakeCanonical(c) ==
    [c EXCEPT !.signal = ConfigSignal(c.Signal),
              !.Actions = @ \o c.ExecMap,
              !.ExecMap = << >>]

\* loadConfigFile: a file that exists is decoded into config, which is then
\* made canonical.
LoadConfigFile(c, file) ==
    IF file.exists THEN MakeCanonical(Decode(c, file)) ELSE c

\* flagsToConfiguration: the ignore flags append to config.Ignore and to
\* config.IgnoreWatch, the signal flag sets config.Signal, and command-line
\* arguments append one action to config.Actions.
FlagsToConfiguration(c, flags) ==
    [c EXCEPT !.Ignore = IF flags.ignoreExt # "" THEN Append(@, flags.ignoreExt) ELSE @,
              !.IgnoreWatch = @ \o flags.ignore,
              !.Signal = IF flags.signal # "" THEN flags.signal ELSE @,
              !.Actions = IF flags.args # "" THEN Append(@, flags.args) ELSE @]

\* The head of watchContext: loadConfigFile(); flagsToConfiguration();
\* config.makeCanonical(), on the global config as the last session left it.
WatchContextConfig(c, file, flags) ==
    MakeCanonical(FlagsToConfiguration(LoadConfigFile(c, file), flags))

\* ------------------------------------------------- registering directories
\* The files below a watch root r, by short names: r/a, r/m.md and r/z, in
\* the lexical order in which filepath.Walk visits the names of a directory,
\* r/a/c, and r/z/d.md.
Nodes == {"r", "a", "m", "z", "ac", "zd"}
WalkPath(n) ==
    CASE n = "r" -> <<"r">>
      [] n = "a" -> <<"r", "/", "a">>
      [] n = "m" -> <<"r", "/", "m", ".", "m", "d">>
      [] n = "z" -> <<"r", "/", "z">>
      [] n = "ac" -> <<"r", "/", "a", "/", "c">>
      [] n = "zd" -> <<"r", "/", "z", "/", "d", ".", "m", "d">>
ParentOf(n) ==
    CASE n = "ac" -> "a"
      [] n = "zd" -> "z"
      [] OTHER -> "r"
\* readDirNames: the names in a directory, sorted.
Names(n) ==
    CASE n = "r" -> <<"a", "m", "z">>
      [] n = "a" -> <<"ac">>
      [] n = "z" -> <<"zd">>
      [] OTHER -> << >>

\* The trees: what each name is ("none": there is no such file); the root is
\* a directory, and only a directory has files in it.
Trees ==
    {k \in [Nodes -> {"none", "file", "dir"}] :
        /\ k["r"] = "dir"
        /\ \A n \in Nodes \ {"r"} : k[ParentOf(n)] # "dir" => k[n] = "none"}

\* shouldExclude: some ignore glob matches the path, or Match of some ignore
\* filter on Event{Name: path} reports any.
ShouldExclude(c, path) ==
    \/ \E i \in 1..Len(c.IgnoreWatch) : GlobMatch(c.IgnoreWatch[i], path)
    \/ \E i \in 1..Len(c.Ignore) : FilterMatch(c.Ignore[i], [Name |-> path, Op |-> "none"]).any

\* filepath.Walk after the function returned SkipDir for n, with rest still to
\* visit: for a directory its names are not read; for a file the walk of the
\* directory it is in ends, which drops the names of that directory that
\* come after it.
AfterSkipDir(kind, n, rest) ==
    IF kind[n] = "dir" THEN rest
    ELSE SelectSeq(rest, LAMBDA x : ParentOf(x) # ParentOf(n))

\* filepath.Walk after the function returned nil for n: the names of a
\* directory are visited next, in order.
AfterNil(kind, n, rest) ==
    IF kind[n] = "dir"
    THEN SelectSeq(Names(n), LAMBDA x : kind[x] # "none") \o rest
    ELSE rest

\* ------------------------------------------------------------------- state
VARIABLES
    cfg,        \* cfg[g]: the configuration session g runs with
    quiet,      \* the -quiet flag
    gen,        \* the number of the current session
    mainpc,     \* main: "watching" (in watchContext at <-ctx.Done()), "loop"
                \* (between two sessions), "exited" (os.Exit), "crashed" (a
                \* goroutine panicked)
    cancelled,  \* cancelled[g]: the context of session g is cancelled
    watcher,    \* watcher[g]: "none", "open", "closed"
    disp,       \* disp[g]: the goroutine ranging over w.Events, inside onEvent
    trigger,    \* trigger[p]: action.trigger, the events it holds
    run,        \* run[p]: the number of tokens in the run channel
    runClosed,  \* runClosed[p]: close(run) has happened
    ipc,        \* ipc[p]: the intake goroutine's position
    rpc,        \* rpc[p]: the run goroutine's position
    tick,       \* tick[p]: the number of ticks pending in action.tick
    proc,       \* proc[p]: a.command: "nil", "live" or "done"
    sig,        \* sig[p]: the live process has been sent a signal
    acq,        \* acq[p]: the indices of a.Locks whose mutex the call of
                \* Locks.Lock in progress has locked
    mutex,      \* mutex[n]: the named mutex of the registry is locked
    registry,   \* registry[n]: actionLocks.Map[n], as the number of mutexes
                \* stored under n so far (0: the map has no entry for n)
    ref,        \* ref[p][k]: the mutex the goroutine of the k-th name got from
                \* the registry in the Locks.Lock call in progress (0: none yet)
    inflight,   \* inflight[p]: invocations of Action.Run in progress
    errs,       \* the pipelines for which onError reported a failed Run
    sinceEv,    \* sinceEv[p]: ticker periods elapsed since the last event
                \* matched the action (2 stands for two or more)
    burst,      \* burst[p]: "none", "open" (every event so far followed the
                \* one before by less than the delay) or "over"
    dropped,    \* dropped[g]: the events onEvent of session g returned for
                \* without sending them to any action
    reqs,       \* reqs[p]: run requests since the first event (2: two or more)
    hist,       \* the history of the session that runs the "single" scenario:
                \* events received from the watcher (recv), of these the ones
                \* shouldNotify let pass (passed) and the ones sent to the
                \* action (offered), records written to stdout (records),
                \* processes the action started (execs), and the Time of the
                \* event the intake loop took last (taken)
    mIn,        \* the filter, ignore filter and event given to Action.Match
    fOut,       \* whether Filter.Match was called on mIn.f and mIn.e, and the
                \* values of all, any and pathsOK it computed
    nIn,        \* the backend, signal names and command state given to Notify
    nOut,       \* whether Notify was called on nIn, and what it answered
    mOut,       \* whether Action.Match was called on mIn, and what it returned
    xIn,        \* the Extensions list of a filter as configured, and an event
    xOut,       \* whether the filter was made canonical and matched against
                \* xIn.e, and the value of any it computed
    rIn,        \* the configuration file as the first and as the second session
                \* find it, and the command-line flags
    rOut,       \* the sessions watchContext has set up on rIn, config as each
                \* of them left it, and config as the second session would
                \* have left it starting from the zero configuration
    wIn,        \* the tree below the watch root, the ignore globs and the
                \* ignore filters given to watchRecursive
    wOut        \* the walk of watchRecursive on wIn: the files it has yet to
                \* visit and the directories it has added to the watcher

pipeVars == <<trigger, run, runClosed, ipc, rpc, tick, proc, sig, acq, inflight>>
ghostVars == <<sinceEv, burst, reqs, dropped, hist>>
fnVars == <<mIn, mOut, fOut, nIn, nOut, xIn, xOut, rIn, rOut, wIn, wOut>>
vars == <<cfg, quiet, gen, mainpc, cancelled, watcher, disp, pipeVars, mutex, registry, ref, errs,
          ghostVars, fnVars>>

Idle == [pc |-> "idle"]

\* The configuration of session g, and the action a pipeline belongs to.
ConfigOf(g) == Config(cfg[g])
ActionOf(p) == ConfigOf(p[1]).Actions[p[2]]
Configured(c, a) == a <= Len(c.Actions)
\* The pipelines session g builds: one per element of config.Actions.
PipesOf(g, c) == {p \in Pipes : p[1] = g /\ Configured(c, p[2])}

\* The process is running (os.Exit has not been called, no goroutine has
\* panicked).
Alive == mainpc \notin {"exited", "crashed"}

\* The state watchContext builds for session g with configuration c: per action
\* an empty trigger channel, a run channel holding one token, and the two
\* goroutines at the head of their loops.
RunInit_Empty(p) == 0
RunInit(p) == 1

SessionSetup(g, c) ==
    /\ cfg' = [cfg EXCEPT ![g] = c]
    /\ gen' = g
    /\ mainpc' = "watching"
    /\ watcher' = [watcher EXCEPT ![g] = "open"]
    /\ disp' = [disp EXCEPT ![g] = Idle]
    /\ run' = [p \in Pipes |-> IF p \in PipesOf(g, Config(c)) THEN RunInit(p) ELSE run[p]]
    /\ ipc' = [p \in Pipes |-> IF p \in PipesOf(g, Config(c)) THEN "select" ELSE ipc[p]]
    /\ rpc' = [p \in Pipes |-> IF p \in PipesOf(g, Config(c)) THEN "idle" ELSE rpc[p]]

\* Nothing has happened in the recorded session.
NoHist ==
    [recv |-> 0, passed |-> 0, offered |-> 0, records |-> 0, execs |-> 0, taken |-> 0]
\* The session whose history is recorded.
Traced(g) == cfg[g] = "single"

\* No goroutine of Locks.Lock holds a mutex of the registry.
NoRef == [k \in 1..MaxLocks |-> 0]

\* The first session, started by main with the configuration named c.
FirstSession(c) ==
    /\ cfg = [g \in Gens |-> IF g = 0 THEN c ELSE "none"]
    /\ run = [p \in Pipes |-> IF p \in PipesOf(0, Config(c)) THEN RunInit(p) ELSE 0]
    /\ quiet \in (IF c = "single" THEN BOOLEAN ELSE {FALSE})
    /\ hist = NoHist
    /\ ipc = [p \in Pipes |-> IF p \in PipesOf(0, Config(c)) THEN "select" ELSE "off"]
    /\ rpc = [p \in Pipes |-> IF p \in PipesOf(0, Config(c)) THEN "idle" ELSE "off"]
    /\ gen = 0
    /\ mainpc = "watching"
    /\ cancelled = [g \in Gens |-> FALSE]
    /\ watcher = [g \in Gens |-> IF g = 0 THEN "open" ELSE "none"]
    /\ disp = [g \in Gens |-> Idle]
    /\ trigger = [p \in Pipes |-> << >>]
    /\ runClosed = [p \in Pipes |-> FALSE]
    /\ tick = [p \in Pipes |-> 0]
    /\ proc = [p \in Pipes |-> "nil"]
    /\ sig = [p \in Pipes |-> FALSE]
    /\ acq = [p \in Pipes |-> {}]
    /\ mutex = [n \in LockNames |-> FALSE]
    /\ registry = [n \in LockNames |-> 0]
    /\ ref = [p \in Pipes |-> NoRef]
    /\ inflight = [p \in Pipes |-> 0]
    /\ errs = {}
    /\ sinceEv = [p \in Pipes |-> 0]
    /\ dropped = [g \in Gens |-> {}]
    /\ burst = [p \in Pipes |-> "none"]
    /\ reqs = [p \in Pipes |-> 0]

NoInput == [f |-> EmptyFilter, ig |-> NoIgnore, e |-> SrcWrite]
NotCalled == [called |-> FALSE, result |-> FALSE]
FilterNotCalled == [called |-> FALSE, all |-> FALSE, any |-> FALSE, pathsOK |-> FALSE]
NoNotifyInput ==
    [kind |-> "httpGet", Signal |-> "", IgnoreSignals |-> FALSE, globalSignal |-> "",
     command |-> "nil"]
NotifyNotCalled == [called |-> FALSE, signalled |-> FALSE, sent |-> "none", err |-> FALSE]
NoExtInput == [Extensions |-> << >>, e |-> SrcWrite]
NoReloadInput == [first |-> NoFile, second |-> NoFile, flags |-> NoFlags]
NotLoaded == [sessions |-> 0, config |-> ZeroConfig, fresh |-> ZeroConfig]
ExtNotCalled == [called |-> FALSE, any |-> FALSE]
NoWalkInput ==
    [kind |-> [n \in Nodes |-> IF n = "r" THEN "dir" ELSE "none"],
     IgnoreWatch |-> << >>, Ignore |-> << >>]
NotWalked == [called |-> FALSE, todo |-> << >>, registered |-> {}]
\* The function inputs of a run that follows the sessions.
NoCalls ==
    /\ mIn = NoInput
    /\ mOut = NotCalled
    /\ fOut = FilterNotCalled
    /\ nIn = NoNotifyInput
    /\ nOut = NotifyNotCalled
    /\ xIn = NoExtInput
    /\ xOut = ExtNotCalled
    /\ rIn = NoReloadInput
    /\ rOut = NotLoaded
    /\ wIn = NoWalkInput
    /\ wOut = NotWalked

Init ==
    /\ \E c \in ConfigNames : FirstSession(c)
    /\ NoCalls


\* ---------------------------------------------------------------- dispatcher
\* The loop of onEvent over config.Actions: the first action from index i on
\* whose Match accepts e, 0 when there is none.
NextTarget(c, e, i) ==
    LET js == {j \in i..Len(c.Actions) : ActionMatch(c.Actions[j], e)}
    IN IF js = {} THEN 0 ELSE CHOOSE j \in js : \A k \in js : j <= k

\* The actions an event is offered to.
Targets(c, e) ==
    IF ShouldNotify(c, e)
    THEN {a \in 1..Len(c.Actions) : ActionMatch(c.Actions[a], e)}
    ELSE {}

\* Bookkeeping of the bursts of a debounced action: an event that matches the
\* action less than one delay after the one before continues the burst.
NoteEvent(g, e) ==
    LET hit(p) == p[1] = g /\ p[2] \in Targets(ConfigOf(g), e) /\ HasTick(ActionOf(p))
    IN /\ burst' = [p \in Pipes |->
                      IF ~hit(p) THEN burst[p]
                      ELSE IF burst[p] = "none" THEN "open"
                      ELSE IF sinceEv[p] >= 2 THEN "over"
                      ELSE burst[p]]
       /\ sinceEv' = [p \in Pipes |-> IF hit(p) THEN 0 ELSE sinceEv[p]]

\* Event{Name, Op, Time: time.Now()}: the Time of an event of the recorded
\* session is its place in the order in which the watcher delivered the
\* events; the other sessions run within one instant.
Stamp_Still(n) == 1
Stamp(n) == n + 1
Stamped(g, e) ==
    [Name |-> e.Name, Op |-> e.Op, Time |-> IF Traced(g) THEN Stamp(hist.recv) ELSE 0]

\* if quiet { return }; stdoutJSONEncode(...): the records on stdout after
\* onEvent has come to its end, of n before.
Printed_Always(n) == n + 1
Printed(n) == IF quiet THEN n ELSE n + 1

\* The watcher goroutine takes e from w.Events and calls onEvent: the reload
\* test (ctxCancel cancels the current context), shouldNotify, and the first
\* send of the loop over the actions.
EventArrive(g, e) ==
    /\ Alive
    /\ watcher[g] = "open"
    /\ disp[g].pc = "idle"
    /\ SelfReload(ConfigOf(g), e) => gen < MaxReloads
    /\ Traced(g) => hist.recv < MaxEvents
    /\ cancelled' = IF SelfReload(ConfigOf(g), e)
                    THEN [cancelled EXCEPT ![gen] = TRUE]
                    ELSE cancelled
    /\ LET j == IF ShouldNotify(ConfigOf(g), e) THEN NextTarget(ConfigOf(g), e, 1) ELSE 0
       IN /\ disp' = [disp EXCEPT ![g] =
                        IF j = 0 THEN Idle
                        ELSE [pc |-> "send", e |-> Stamped(g, e), i |-> j]]
          /\ dropped' = [dropped EXCEPT ![g] = IF j = 0 THEN @ \cup {e} ELSE @]
          /\ hist' = IF ~Traced(g) THEN hist
                     ELSE [hist EXCEPT
                             !.recv = @ + 1,
                             !.passed = IF ShouldNotify(ConfigOf(g), e) THEN @ + 1 ELSE @,
                             !.offered = IF j # 0 THEN @ + 1 ELSE @,
                             !.records = IF ShouldNotify(ConfigOf(g), e) /\ j = 0
                                         THEN Printed(@) ELSE @]
    /\ NoteEvent(g, e)
    /\ UNCHANGED <<cfg, quiet, gen, mainpc, watcher, pipeVars, mutex, registry, ref,
                   errs, reqs, fnVars>>

\* action.trigger <- e: the send waits until the channel has room.
TriggerHasRoom_Always(p) == TRUE
TriggerHasRoom(p) == Len(trigger[p]) < TriggerCap

DispSend(g) ==
    /\ Alive
    /\ disp[g].pc = "send"
    /\ LET p == <<g, disp[g].i>>
           j == NextTarget(ConfigOf(g), disp[g].e, disp[g].i + 1)
       IN /\ TriggerHasRoom(p)
          /\ trigger' = [trigger EXCEPT ![p] = Append(@, disp[g].e)]
          /\ disp' = [disp EXCEPT ![g] =
                        IF j = 0 THEN Idle ELSE [pc |-> "send", e |-> disp[g].e, i |-> j]]
          /\ hist' = IF Traced(g) /\ j = 0
                     THEN [hist EXCEPT !.records = Printed(@)]
                     ELSE hist
    /\ UNCHANGED <<cfg, quiet, gen, mainpc, cancelled, watcher, run, runClosed, ipc, rpc,
                   tick, proc, sig, acq, inflight, mutex, registry, ref, errs,
                   sinceEv, burst, reqs, dropped, fnVars>>

\* -------------------------------------------------------------------- ticker
\* The ticker of a debounced action fires: the tick is dropped when one is
\* already pending.
TickFire(p) ==
    /\ Alive
    /\ ipc[p] \in {"select", "wait", "notify", "slot"}
    /\ HasTick(ActionOf(p))
    /\ tick' = [tick EXCEPT ![p] = TickCap]
    /\ sinceEv' = [sinceEv EXCEPT ![p] = IF @ >= 2 THEN 2 ELSE @ + 1]
    /\ UNCHANGED <<cfg, quiet, gen, mainpc, cancelled, watcher, disp, trigger, run,
                   runClosed, ipc, rpc, proc, sig, acq, inflight, mutex, registry, ref, errs,
                   burst, reqs, dropped, hist, fnVars>>

\* -------------------------------------------------------------------- intake
\* select: case <-ctx.Done(): return, with the deferred close(run).
IntakeDone(p) ==
    /\ Alive
    /\ ipc[p] = "select"
    /\ cancelled[p[1]]
    /\ ipc' = [ipc EXCEPT ![p] = "done"]
    /\ runClosed' = [runClosed EXCEPT ![p] = TRUE]
    /\ UNCHANGED <<cfg, quiet, gen, mainpc, cancelled, watcher, disp, trigger, run, rpc,
                   tick, proc, sig, acq, inflight, mutex, registry, ref, errs, ghostVars, fnVars>>

\* The history after the intake goroutine of p received from action.trigger.
Taken(p) ==
    IF Traced(p[1]) THEN [hist EXCEPT !.taken = Head(trigger[p]).Time] ELSE hist

\* select: case e := <-action.trigger, then blockingWaitForTick when the action
\* has a tick channel.
IntakeRecv(p) ==
    /\ Alive
    /\ ipc[p] = "select"
    /\ trigger[p] # << >>
    /\ trigger' = [trigger EXCEPT ![p] = Tail(@)]
    /\ ipc' = [ipc EXCEPT ![p] = IF HasTick(ActionOf(p)) THEN "wait" ELSE "notify"]
    /\ hist' = Taken(p)
    /\ UNCHANGED <<cfg, quiet, gen, mainpc, cancelled, watcher, disp, run, runClosed, rpc,
                   tick, proc, sig, acq, inflight, mutex, registry, ref, errs,
                   sinceEv, burst, reqs, dropped, fnVars>>

\* blockingWaitForTick: case <-action.tick: break inner.
WaitTick(p) ==
    /\ Alive
    /\ ipc[p] = "wait"
    /\ tick[p] > 0
    /\ tick' = [tick EXCEPT ![p] = @ - 1]
    /\ ipc' = [ipc EXCEPT ![p] = "notify"]
    /\ UNCHANGED <<cfg, quiet, gen, mainpc, cancelled, watcher, disp, trigger, run,
                   runClosed, rpc, proc, sig, acq, inflight, mutex, registry, ref, errs,
                   ghostVars, fnVars>>

\* blockingWaitForTick: case <-action.trigger: the event is dropped.
WaitDrain(p) ==
    /\ Alive
    /\ ipc[p] = "wait"
    /\ trigger[p] # << >>
    /\ trigger' = [trigger EXCEPT ![p] = Tail(@)]
    /\ hist' = Taken(p)
    /\ UNCHANGED <<cfg, quiet, gen, mainpc, cancelled, watcher, disp, run, runClosed, ipc,
                   rpc, tick, proc, sig, acq, inflight, mutex, registry, ref, errs,
                   sinceEv, burst, reqs, dropped, fnVars>>

\* Whether the backend's Notify sends a signal: a process kind, a command with
\* a started process, signals not ignored, and Process.Signal reaching a
\* process that has not finished.
Signals(p) ==
    /\ ActionOf(p).kind \in ProcessKinds
    /\ ~ActionOf(p).IgnoreSignals
    /\ proc[p] = "live"

\* What Notify can read in a.command and a.command.Process.  The run goroutine
\* writes both (a.command = exec.CommandContext(...), and Start stores Process
\* after the process exists) while the intake goroutine reads them with no
\* synchronisation between the two: while the process is live the read may
\* still give the command without its process.
CommandSeen(p) == IF proc[p] = "live" THEN {"live", "unstarted"} ELSE {proc[p]}

\* Notify tests a.command and a.command.Process and then reads a.command again
\* for a.command.Process.Signal(s).  When the run goroutine is between the call
\* of Action.Run and the start of the process, it may store the new command,
\* whose Process is nil until Start, after the tests passed on the command of
\* the run before: Signal is then called on a nil *os.Process.
StaleCommand(p) ==
    /\ ActionOf(p).kind \in ProcessKinds
    /\ ~ActionOf(p).IgnoreSignals
    /\ rpc[p] = "start"
    /\ proc[p] = "done"

\* action.Notify(e): it returns, or it panics on the nil dereference and the
\* process ends.
Notify(p) ==
    /\ Alive
    /\ ipc[p] = "notify"
    /\ \/ /\ \E c \in CommandSeen(p) :
                sig' = [sig EXCEPT ![p] = @ \/ (Signals(p) /\ c = "live")]
          /\ ipc' = [ipc EXCEPT ![p] = "slot"]
          /\ UNCHANGED mainpc
       \/ /\ StaleCommand(p)
          /\ mainpc' = "crashed"
          /\ UNCHANGED <<sig, ipc>>
    /\ UNCHANGED <<cfg, quiet, gen, cancelled, watcher, disp, trigger, run,
                   runClosed, rpc, tick, proc, acq, inflight, mutex, registry, ref, errs,
                   ghostVars, fnVars>>

\* What the select on run leaves in the channel: a token that is there is
\* taken and sent back, an empty channel receives one.
SlotAfter_Drop(n) == n
SlotAfter_Push(n) == n + 1
SlotAfter(n) == IF n > 0 THEN (n - 1) + 1 ELSE n + 1

\* select { case <-run: run <- struct{}{}; default: run <- struct{}{} }: the
\* send goes through once the channel has room for what it leaves there.
Reslot(p) ==
    /\ Alive
    /\ ipc[p] = "slot"
    /\ SlotAfter(run[p]) <= RunCap
    /\ run' = [run EXCEPT ![p] = SlotAfter(@)]
    /\ ipc' = [ipc EXCEPT ![p] = "select"]
    /\ reqs' = [reqs EXCEPT ![p] = IF burst[p] = "none" \/ @ >= 2 THEN @ ELSE @ + 1]
    /\ UNCHANGED <<cfg, quiet, gen, mainpc, cancelled, watcher, disp, trigger, runClosed,
                   rpc, tick, proc, sig, acq, inflight, mutex, registry, ref, errs, sinceEv,
                   burst, dropped, hist, fnVars>>


\* ------------------------------------------------------------------ run loop
\* The run goroutine is at `for range run`, not inside action.Run.
RunLoopReady_Spawn(p) == rpc[p] \in {"idle", "lock", "start", "exec"}
RunLoopReady(p) == rpc[p] = "idle"

LockIdx(p) == 1..Len(ActionOf(p).Locks)

\* for range run: a token is received and action.Run(ctx) is called; Run
\* begins with actionLocks.Lock(a.Locks), which returns at once for no names.
RunRecv(p) ==
    /\ Alive
    /\ RunLoopReady(p)
    /\ run[p] > 0
    /\ run' = [run EXCEPT ![p] = @ - 1]
    /\ inflight' = [inflight EXCEPT ![p] = @ + 1]
    /\ rpc' = [rpc EXCEPT ![p] = IF LockIdx(p) = {} THEN "start" ELSE "lock"]
    /\ UNCHANGED <<cfg, quiet, gen, mainpc, cancelled, watcher, disp, trigger, runClosed,
                   ipc, tick, proc, sig, acq, mutex, registry, ref, errs, ghostVars, fnVars>>

\* for range run: the channel is closed and empty, the goroutine ends.
RunExit(p) ==
    /\ Alive
    /\ rpc[p] = "idle"
    /\ run[p] = 0
    /\ runClosed[p]
    /\ rpc' = [rpc EXCEPT ![p] = "done"]
    /\ UNCHANGED <<cfg, quiet, gen, mainpc, cancelled, watcher, disp, trigger, run,
                   runClosed, ipc, tick, proc, sig, acq, inflight, mutex, registry, ref, errs,
                   ghostVars, fnVars>>

\* lock.Lock() of sync.Mutex returns only when the mutex is unlocked.
MutexFree_Always(n) == TRUE
MutexFree(n) == ~mutex[n]

\* lock, ok := l.Map[name]; if !ok { lock = &sync.Mutex{}; l.Map[name] = lock }
\* The mutex the lookup gives: the one stored, a new one when there is none.
Entry_Fresh(n) == registry[n] + 1
Entry(n) == IF registry[n] = 0 THEN 1 ELSE registry[n]

\* Locks.Lock: the goroutine started for the k-th name finds no entry for the
\* name and inserts a new mutex, all of it under l.mu.
LockLookup(p, k) ==
    /\ Alive
    /\ rpc[p] = "lock"
    /\ k \in LockIdx(p)
    /\ ref[p][k] = 0
    /\ registry[ActionOf(p).Locks[k]] = 0
    /\ registry' = [registry EXCEPT ![ActionOf(p).Locks[k]] = Entry(ActionOf(p).Locks[k])]
    /\ ref' = [ref EXCEPT ![p][k] = Entry(ActionOf(p).Locks[k])]
    /\ UNCHANGED <<cfg, quiet, gen, mainpc, cancelled, watcher, disp, pipeVars, mutex, errs,
                   ghostVars, fnVars>>

\* Locks.Lock: the goroutine started for the k-th name locks that name's mutex;
\* wg.Wait() returns when every one of them has.  The lookup of a name that
\* has an entry only reads the map under l.mu; it is taken together with the
\* lock.Lock() that follows it.
LockAcquire(p, k) ==
    /\ Alive
    /\ rpc[p] = "lock"
    /\ k \in LockIdx(p) \ acq[p]
    /\ ref[p][k] # 0 \/ registry[ActionOf(p).Locks[k]] # 0
    /\ IF ref[p][k] # 0
       THEN UNCHANGED <<registry, ref>>
       ELSE /\ registry' = [registry EXCEPT ![ActionOf(p).Locks[k]] = Entry(ActionOf(p).Locks[k])]
            /\ ref' = [ref EXCEPT ![p][k] = Entry(ActionOf(p).Locks[k])]
    /\ MutexFree(ActionOf(p).Locks[k])
    /\ mutex' = [mutex EXCEPT ![ActionOf(p).Locks[k]] = TRUE]
    /\ acq' = [acq EXCEPT ![p] = @ \cup {k}]
    /\ rpc' = [rpc EXCEPT ![p] = IF acq[p] \cup {k} = LockIdx(p) THEN "start" ELSE "lock"]
    /\ UNCHANGED <<cfg, quiet, gen, mainpc, cancelled, watcher, disp, trigger, run,
                   runClosed, ipc, tick, proc, sig, inflight, errs, ghostVars,
                   fnVars>>

\* Locks.Unlock(names), deferred by Action.Run: every named mutex is unlocked.
Unlocked_None(p) == mutex
Unlocked(p) ==
    [n \in LockNames |-> IF n \in SeqToSet(ActionOf(p).Locks) THEN FALSE ELSE mutex[n]]

\* The run loop after Run returned an error: it reports and ranges on.
AfterError_Stop(p) == "done"
AfterError(p) == "idle"

\* Action.Run returns res: the deferred Unlock, then in the run loop onError
\* for an error, and back to `for range run`.
Return(p, res) ==
    /\ mutex' = Unlocked(p)
    /\ acq' = [acq EXCEPT ![p] = {}]
    /\ ref' = [ref EXCEPT ![p] = NoRef]
    /\ UNCHANGED registry
    /\ inflight' = [inflight EXCEPT ![p] = @ - 1]
    /\ errs' = IF res = "err" THEN errs \cup {p} ELSE errs
    /\ rpc' = [rpc EXCEPT ![p] = IF res = "err" THEN AfterError(p) ELSE "idle"]

\* exec.CommandContext(ctx, ...) followed by command.Run(): Start fails at once
\* when ctx is already done, leaving the new command without a process.
ExecStart(p) ==
    /\ Alive
    /\ rpc[p] = "start"
    /\ ActionOf(p).kind \in ProcessKinds
    /\ sig' = [sig EXCEPT ![p] = FALSE]
    /\ IF cancelled[p[1]]
       THEN /\ proc' = [proc EXCEPT ![p] = "nil"]
            /\ Return(p, "err")
            /\ UNCHANGED hist
       ELSE /\ proc' = [proc EXCEPT ![p] = "live"]
            /\ rpc' = [rpc EXCEPT ![p] = "exec"]
            /\ hist' = IF Traced(p[1]) THEN [hist EXCEPT !.execs = @ + 1] ELSE hist
            /\ UNCHANGED <<mutex, registry, ref, acq, inflight, errs>>
    /\ UNCHANGED <<cfg, quiet, gen, mainpc, cancelled, watcher, disp, trigger, run,
                   runClosed, ipc, tick, sinceEv, burst, reqs, dropped, fnVars>>

\* ActionHTTPGet.Run issues the request with http.DefaultClient; ctx is not
\* passed to it.
HTTPStart(p) ==
    /\ Alive
    /\ rpc[p] = "start"
    /\ ActionOf(p).kind = "httpGet"
    /\ rpc' = [rpc EXCEPT ![p] = "exec"]
    /\ UNCHANGED <<cfg, quiet, gen, mainpc, cancelled, watcher, disp, trigger, run,
                   runClosed, ipc, tick, proc, sig, acq, inflight, mutex, registry, ref, errs,
                   ghostVars, fnVars>>

\* The external process ends by itself, with exit status 0 or not.
ProcExit(p, res) ==
    /\ Alive
    /\ rpc[p] = "exec"
    /\ ActionOf(p).kind \in ProcessKinds
    /\ proc' = [proc EXCEPT ![p] = "done"]
    /\ Return(p, res)
    /\ UNCHANGED <<cfg, quiet, gen, mainpc, cancelled, watcher, disp, trigger, run,
                   runClosed, ipc, tick, sig, ghostVars, fnVars>>

\* The external process is ended by the signal Notify sent it.
ProcSignalled(p) ==
    /\ Alive
    /\ rpc[p] = "exec"
    /\ ActionOf(p).kind \in ProcessKinds
    /\ sig[p]
    /\ proc' = [proc EXCEPT ![p] = "done"]
    /\ Return(p, "err")
    /\ UNCHANGED <<cfg, quiet, gen, mainpc, cancelled, watcher, disp, trigger, run,
                   runClosed, ipc, tick, sig, ghostVars, fnVars>>

\* exec.CommandContext kills the process once ctx is done.
ProcKilled(p) ==
    /\ Alive
    /\ rpc[p] = "exec"
    /\ ActionOf(p).kind \in ProcessKinds
    /\ cancelled[p[1]]
    /\ proc' = [proc EXCEPT ![p] = "done"]
    /\ Return(p, "err")
    /\ UNCHANGED <<cfg, quiet, gen, mainpc, cancelled, watcher, disp, trigger, run,
                   runClosed, ipc, tick, sig, ghostVars, fnVars>>

\* The server answers (or the request fails): http.DefaultClient.Do returns.
HTTPDone(p, res) ==
    /\ Alive
    /\ rpc[p] = "exec"
    /\ ActionOf(p).kind = "httpGet"
    /\ Return(p, res)
    /\ UNCHANGED <<cfg, quiet, gen, mainpc, cancelled, watcher, disp, trigger, run,
                   runClosed, ipc, tick, proc, sig, ghostVars, fnVars>>

\* ---------------------------------------------------------------------- main
\* defer w.Close(): the watcher of session g is closed when watchContext
\* returns.
DeferredClose_Skip(g) == watcher
DeferredClose(g) == [watcher EXCEPT ![g] = "closed"]

\* watchContext returns from <-ctx.Done(): the deferred w.Close(), then
\* ctxCancel() in main.
MainReturn ==
    /\ mainpc = "watching"
    /\ cancelled[gen]
    /\ watcher' = DeferredClose(gen)
    /\ mainpc' = "loop"
    /\ UNCHANGED <<cfg, quiet, gen, cancelled, disp, pipeVars, mutex, registry, ref, errs, ghostVars,
                   fnVars>>

\* main's loop: a new context, the configuration loaded again, a new watcher,
\* and the goroutines of every action.
StartSession ==
    /\ mainpc = "loop"
    /\ gen < MaxReloads
    /\ SessionSetup(gen + 1, cfg[gen])
    /\ UNCHANGED <<quiet, cancelled, trigger, runClosed, tick, proc, sig, acq, inflight,
                   mutex, registry, ref, errs, ghostVars, fnVars>>

\* fsnotify.NewWatcher fails: onError and os.Exit(1).
NewWatcherFails ==
    /\ mainpc = "loop"
    /\ gen < MaxReloads
    /\ mainpc' = "exited"
    /\ UNCHANGED <<cfg, quiet, gen, cancelled, watcher, disp, pipeVars, mutex, registry, ref, errs,
                   ghostVars, fnVars>>

Next ==
    \/ \E g \in Gens : \E e \in EventsFor(cfg[g]) : EventArrive(g, e)
    \/ \E g \in Gens : DispSend(g)
    \/ \E p \in Pipes : TickFire(p)
    \/ \E p \in Pipes : IntakeDone(p)
    \/ \E p \in Pipes : IntakeRecv(p)
    \/ \E p \in Pipes : WaitTick(p)
    \/ \E p \in Pipes : WaitDrain(p)
    \/ \E p \in Pipes : Notify(p)
    \/ \E p \in Pipes : Reslot(p)
    \/ \E p \in Pipes : RunRecv(p)
    \/ \E p \in Pipes : RunExit(p)
    \/ \E p \in Pipes, k \in 1..MaxLocks : LockLookup(p, k)
    \/ \E p \in Pipes, k \in 1..MaxLocks : LockAcquire(p, k)
    \/ \E p \in Pipes : ExecStart(p)
    \/ \E p \in Pipes : HTTPStart(p)
    \/ \E p \in Pipes, res \in {"ok", "err"} : ProcExit(p, res)
    \/ \E p \in Pipes : ProcSignalled(p)
    \/ \E p \in Pipes : ProcKilled(p)
    \/ \E p \in Pipes, res \in {"ok", "err"} : HTTPDone(p, res)
    \/ MainReturn
    \/ StartSession
    \/ NewWatcherFails

Spec == Init /\ [][Next]_vars


\* The steps of one action's intake goroutine, and of its run goroutine
\* (with the kill exec.CommandContext performs once ctx is done).
IntakeStep(p) ==
    \/ IntakeDone(p) \/ IntakeRecv(p) \/ WaitTick(p) \/ WaitDrain(p)
    \/ Notify(p) \/ Reslot(p)
RunStep(p) ==
    \/ RunRecv(p) \/ RunExit(p)
    \/ (\E k \in 1..MaxLocks : LockLookup(p, k) \/ LockAcquire(p, k))
    \/ ExecStart(p) \/ HTTPStart(p) \/ ProcKilled(p)

\* The send of the dispatcher goroutine seen from outside: the event enters
\* the trigger channel and the dispatcher moves on to some later action or
\* to idle.  Within Next these are exactly the DispSend(g) steps.
DispStep(g) ==
    /\ Alive
    /\ disp[g].pc = "send"
    /\ TriggerHasRoom(<<g, disp[g].i>>)
    /\ trigger' = [trigger EXCEPT ![<<g, disp[g].i>>] = Append(@, disp[g].e)]
    /\ disp' \in {[disp EXCEPT ![g] = Idle]} \cup
                 {[disp EXCEPT ![g] = [pc |-> "send", e |-> disp[g].e, i |-> j]] :
                    j \in ActIds}
    /\ hist' \in {hist, [hist EXCEPT !.records = Printed(@)]}
    /\ UNCHANGED <<cfg, quiet, gen, mainpc, cancelled, watcher, run, runClosed, ipc, rpc,
                   tick, proc, sig, acq, inflight, mutex, registry, ref, errs,
                   sinceEv, burst, reqs, dropped, fnVars>>

\* Every goroutine that can take a step eventually takes one, and the ticker
\* of a debounced action keeps firing.  Events, process exits and HTTP answers
\* are the environment's and may never come.
Fairness ==
    /\ \A g \in Gens : WF_vars(DispStep(g))
    /\ \A p \in Pipes :
        WF_vars(TickFire(p)) /\ WF_vars(IntakeStep(p)) /\ WF_vars(RunStep(p))
    /\ WF_vars(MainReturn \/ StartSession)

FairSpec == Init /\ [][Next]_vars /\ Fairness

\* ------------------------------------------- sessions that are never reloaded
\* The scenarios with watchSelf: false and process actions only: the context
\* is never cancelled, so the steps that follow a cancellation, the steps of
\* main and the steps of the httpGet backend never occur.
LiveConfigs == {"pair", "delay"}

InitLive ==
    /\ \E c \in LiveConfigs : FirstSession(c)
    /\ NoCalls

NextLive ==
    \/ \E g \in Gens : \E e \in EventsFor(cfg[g]) : EventArrive(g, e)
    \/ \E g \in Gens : DispSend(g)
    \/ \E p \in Pipes : TickFire(p)
    \/ \E p \in Pipes : IntakeRecv(p)
    \/ \E p \in Pipes : WaitTick(p)
    \/ \E p \in Pipes : WaitDrain(p)
    \/ \E p \in Pipes : Notify(p)
    \/ \E p \in Pipes : Reslot(p)
    \/ \E p \in Pipes : RunRecv(p)
    \/ \E p \in Pipes, k \in 1..MaxLocks : LockLookup(p, k)
    \/ \E p \in Pipes, k \in 1..MaxLocks : LockAcquire(p, k)
    \/ \E p \in Pipes : ExecStart(p)
    \/ \E p \in Pipes, res \in {"ok", "err"} : ProcExit(p, res)
    \/ \E p \in Pipes : ProcSignalled(p)

\* The goroutines are scheduled fairly; whether a process ever exits is left
\* open.
LiveSpec == InitLive /\ [][NextLive]_vars /\ Fairness

\* Every process that was started exits.
Terminates == \A p \in Pipes : WF_vars(\E res \in {"ok", "err"} : ProcExit(p, res))
\* The select of blockingWaitForTick chooses among its ready cases at random:
\* a tick that is pending is taken at some time, however many events arrive.
SelectFair == \A p \in Pipes : WF_vars(WaitTick(p))
TermSpec == InitLive /\ [][NextLive]_vars /\ Fairness /\ Terminates /\ SelectFair

\* ------------------------------------------------- Action.Match as a function
MatchExts == {<< >>, << <<".", "G", "O">> >>}
MatchOps == {<< >>, <<"write">>, <<"bogus">>}
MatchPaths == {<< >>, << <<"*", ".", "g", "o">> >>, << <<"m", ".", "G", "o">>, <<"*", ".", "m", "d">> >>}
MatchFilters ==
    {FilterCanonical(x, o, ps) : x \in MatchExts, o \in MatchOps, ps \in MatchPaths}
MatchIgnores == {NoIgnore} \cup {SomeIgnore(f) : f \in MatchFilters}
MatchEvents ==
    [Name : {<<"m", ".", "G", "o">>, <<"r", ".", "m", "d">>, <<"a", "/", "b">>},
     Op : {"write", "chmod"}]

InitMatch ==
    /\ FirstSession("none")
    /\ mIn \in [f : MatchFilters, ig : MatchIgnores, e : MatchEvents]
    /\ mOut = NotCalled
    /\ fOut = FilterNotCalled
    /\ nIn = NoNotifyInput
    /\ nOut = NotifyNotCalled
    /\ xIn = NoExtInput
    /\ xOut = ExtNotCalled
    /\ rIn = NoReloadInput
    /\ rOut = NotLoaded
    /\ wIn = NoWalkInput
    /\ wOut = NotWalked

\* action.Match(e) for the action with filter mIn.f and ignore filter mIn.ig.
CallMatch ==
    /\ ~mOut.called
    /\ mOut' = [called |-> TRUE,
                result |-> ActionMatch(Act("exec", 0, << >>, mIn.f, mIn.ig, FALSE), mIn.e)]
    /\ UNCHANGED <<cfg, quiet, gen, mainpc, cancelled, watcher, disp, pipeVars, mutex,
                   registry, ref, errs, ghostVars, mIn, fOut, nIn, nOut, xIn, xOut, rIn, rOut, wIn, wOut>>

\* mIn.f.Match(mIn.e)
CallFilterMatch ==
    /\ ~fOut.called
    /\ fOut' = [called |-> TRUE,
                all |-> FilterMatch(mIn.f, mIn.e).all,
                any |-> FilterMatch(mIn.f, mIn.e).any,
                pathsOK |-> PathsOK(mIn.f, mIn.e)]
    /\ UNCHANGED <<cfg, quiet, gen, mainpc, cancelled, watcher, disp, pipeVars, mutex,
                   registry, ref, errs, ghostVars, mIn, mOut, nIn, nOut, xIn, xOut, rIn, rOut, wIn, wOut>>

NextMatch == CallMatch \/ CallFilterMatch

SpecMatch == InitMatch /\ [][NextMatch]_vars


\* ------------------------------------------------------- Notify as a function
SignalNames == {"", "SIGTERM", "SIGHUP", "SIGKILL", "SIGUSR1"}
CommandStates == {"nil", "unstarted", "live", "done"}
NotifyInputs ==
    [kind : ProcessKinds \cup {"httpGet"}, Signal : SignalNames,
     IgnoreSignals : BOOLEAN, globalSignal : SignalNames, command : CommandStates]

InitNotify ==
    /\ FirstSession("none")
    /\ mIn = NoInput
    /\ mOut = NotCalled
    /\ fOut = FilterNotCalled
    /\ nIn \in NotifyInputs
    /\ nOut = NotifyNotCalled
    /\ xIn = NoExtInput
    /\ xOut = ExtNotCalled
    /\ rIn = NoReloadInput
    /\ rOut = NotLoaded
    /\ wIn = NoWalkInput
    /\ wOut = NotWalked

\* action.Notify(e) after makeCanonical of the configuration and the action.
CallNotify ==
    /\ ~nOut.called
    /\ LET r == BackendNotify(nIn.kind, nIn.IgnoreSignals, ActionSignal(nIn.Signal),
                              ConfigSignal(nIn.globalSignal), nIn.command)
       IN nOut' = [called |-> TRUE, signalled |-> r.signalled, sent |-> r.sent,
                   err |-> r.err]
    /\ UNCHANGED <<cfg, quiet, gen, mainpc, cancelled, watcher, disp, pipeVars, mutex,
                   registry, ref, errs, ghostVars, mIn, mOut, fOut, nIn, xIn, xOut, rIn, rOut, wIn, wOut>>

NextNotify == CallNotify

SpecNotify == InitNotify /\ [][NextNotify]_vars


\* ------------------------------------------- extension matching as a function
\* Spellings of one configured extension, file names and operations.
ExtSpellings ==
    {<<"g", "o">>, <<".", "g", "o">>, <<".", "G", "O">>, <<" ", "G", "o", " ">>,
     <<"m", "d">>, <<".", "M", "d">>}
ExtNames ==
    {<<"m", ".", "G", "o">>, <<"m", ".", "g", "o">>, <<"a", "/", "b", ".", "G", "O">>,
     <<"r", ".", "m", "d">>, <<"a", "/", "b">>, <<"g", "o">>, <<".", "g", "o">>,
     <<"m", ".", "g", "o", ".", "m", "d">>, <<"a", ".", "g", "o", "/", "b">>,
     <<"m", ".", "g">>}

InitExt ==
    /\ FirstSession("none")
    /\ mIn = NoInput
    /\ mOut = NotCalled
    /\ fOut = FilterNotCalled
    /\ nIn = NoNotifyInput
    /\ nOut = NotifyNotCalled
    /\ xIn \in [Extensions : {<<x>> : x \in ExtSpellings},
                e : [Name : ExtNames, Op : {"write", "chmod"}]]
    /\ xOut = ExtNotCalled
    /\ rIn = NoReloadInput
    /\ rOut = NotLoaded
    /\ wIn = NoWalkInput
    /\ wOut = NotWalked

\* Filter.makeCanonical of a filter that has only xIn.Extensions, then its
\* Match on xIn.e.
CallExtMatch ==
    /\ ~xOut.called
    /\ xOut' = [called |-> TRUE,
                any |-> FilterMatch(FilterCanonical(xIn.Extensions, << >>, << >>),
                                    xIn.e).any]
    /\ UNCHANGED <<cfg, quiet, gen, mainpc, cancelled, watcher, disp, pipeVars, mutex,
                   registry, ref, errs, ghostVars, mIn, mOut, fOut, nIn, nOut, xIn, rIn, rOut, wIn, wOut>>

NextExt == CallExtMatch

SpecExt == InitExt /\ [][NextExt]_vars


\* ---------------------------------------------- loading twice, as a function
ReloadFiles ==
    [exists : BOOLEAN,
     actions : {Absent(<< >>), Given(<<"build">>), Given(<<"build", "test">>)},
     ignores : {Absent(<< >>), Given(<<"md">>)},
     execMap : {Absent(<< >>), Given(<<"go">>)},
     signal : {Absent(""), Given("SIGTERM")}]
ReloadFlags ==
    [args : {"", "make"}, ignoreExt : {"", "tmp"}, ignore : {<< >>, << <<"t", "*">> >>},
     signal : {"", "SIGHUP"}]

InitReload ==
    /\ FirstSession("none")
    /\ mIn = NoInput
    /\ mOut = NotCalled
    /\ fOut = FilterNotCalled
    /\ nIn = NoNotifyInput
    /\ nOut = NotifyNotCalled
    /\ xIn = NoExtInput
    /\ xOut = ExtNotCalled
    /\ rIn \in [first : {f \in ReloadFiles : f.exists}, second : ReloadFiles,
                flags : ReloadFlags]
    /\ rOut = NotLoaded
    /\ wIn = NoWalkInput
    /\ wOut = NotWalked

\* watchContext sets up the next session: the first one on the file as it is
\* at the start, the second one on the file as it is at the reload.
CallWatchContext ==
    /\ rOut.sessions < 2
    /\ LET file == IF rOut.sessions = 0 THEN rIn.first ELSE rIn.second
       IN rOut' = [sessions |-> rOut.sessions + 1,
                   config |-> WatchContextConfig(rOut.config, file, rIn.flags),
                   fresh |-> WatchContextConfig(ZeroConfig, file, rIn.flags)]
    /\ UNCHANGED <<cfg, quiet, gen, mainpc, cancelled, watcher, disp, pipeVars, mutex,
                   registry, ref, errs, ghostVars, mIn, mOut, fOut, nIn, nOut, xIn,
                   xOut, rIn, wIn, wOut>>

NextReload == CallWatchContext

SpecReload == InitReload /\ [][NextReload]_vars


\* ------------------------------------------------ watchRecursive as a function
\* The inputs: every tree, with no ignore glob, the glob r/a or the glob
\* r/z/*, and with no ignore filter or one for the extension md.
InitWalk ==
    /\ FirstSession("none")
    /\ mIn = NoInput
    /\ mOut = NotCalled
    /\ fOut = FilterNotCalled
    /\ nIn = NoNotifyInput
    /\ nOut = NotifyNotCalled
    /\ xIn = NoExtInput
    /\ xOut = ExtNotCalled
    /\ rIn = NoReloadInput
    /\ rOut = NotLoaded
    /\ wIn \in [kind : Trees,
                IgnoreWatch : {<< >>, << <<"r", "/", "a">> >>, << <<"r", "/", "z", "/", "*">> >>},
                Ignore : {<< >>, << MdOnly >>}]
    /\ wOut = NotWalked

\* watchRecursive(w, path): filepath.Walk begins at the root.
CallWatchRecursive ==
    /\ ~wOut.called
    /\ wOut' = [called |-> TRUE, todo |-> <<"r">>, registered |-> {}]
    /\ UNCHANGED <<cfg, quiet, gen, mainpc, cancelled, watcher, disp, pipeVars, mutex,
                   registry, ref, errs, ghostVars, mIn, mOut, fOut, nIn, nOut, xIn,
                   xOut, rIn, rOut, wIn>>

\* filepath.Walk calls the function on the next file: an excluded file gives
\* SkipDir, a directory that is not excluded is added to the watcher.
WalkVisit ==
    /\ wOut.called
    /\ wOut.todo # << >>
    /\ LET n == Head(wOut.todo)
           rest == Tail(wOut.todo)
       IN wOut' =
            IF ShouldExclude(wIn, WalkPath(n))
            THEN [wOut EXCEPT !.todo = AfterSkipDir(wIn.kind, n, rest)]
            ELSE [wOut EXCEPT !.todo = AfterNil(wIn.kind, n, rest),
                              !.registered = IF wIn.kind[n] = "dir" THEN @ \cup {n} ELSE @]
    /\ UNCHANGED <<cfg, quiet, gen, mainpc, cancelled, watcher, disp, pipeVars, mutex,
                   registry, ref, errs, ghostVars, mIn, mOut, fOut, nIn, nOut, xIn,
                   xOut, rIn, rOut, wIn>>

NextWalk == CallWatchRecursive \/ WalkVisit

SpecWalk == InitWalk /\ [][NextWalk]_vars


\* ==================================================================== claims
Started(p) == ipc[p] # "off"
\* The backend of p executes: Locks.Lock has returned, Unlock has not run.
InBackend(p) == rpc[p] \in {"start", "exec"}
SharesLock(p, q) ==
    SeqToSet(ActionOf(p).Locks) \cap SeqToSet(ActionOf(q).Locks) # {}

\* C1: for every action of a session at most one invocation of Action.Run is in
\* progress in every reachable state; an event that reaches the run slot during
\* a run starts no second, concurrent run.
C1_RunSlotExclusive == \A p \in Pipes : inflight[p] <= 1

\* C1 witness: an event has reached the run slot (the intake loop is at its
\* select on run) while the action's one run is executing.
C1_Witness ==
    \E p \in Pipes : ipc[p] = "slot" /\ rpc[p] = "exec" /\ inflight[p] = 1

\* C2: two actions whose lock lists share a name never execute their backends
\* (between Locks.Lock returning and Locks.Unlock) at the same time.
C2_LockExclusive ==
    \A p, q \in Pipes :
        (p # q /\ Started(p) /\ Started(q) /\ SharesLock(p, q) /\ InBackend(p))
            => ~InBackend(q)

\* C2 witness: both actions were triggered at once; one executes its backend
\* while the other, sharing a lock name with it, waits in Locks.Lock.
C2_Witness ==
    \E p, q \in Pipes :
        /\ p # q /\ Started(p) /\ Started(q) /\ SharesLock(p, q)
        /\ rpc[p] = "exec" /\ rpc[q] = "lock"

\* p waits in Locks.Lock for names that q holds, having locked one itself.
WaitsOn(p, q) ==
    /\ rpc[p] = "lock" /\ rpc[q] = "lock"
    /\ acq[p] # {}
    /\ \A k \in LockIdx(p) \ acq[p] :
        \E j \in acq[q] : ActionOf(q).Locks[j] = ActionOf(p).Locks[k]

\* Two actions each hold one of two shared mutexes and wait for the other.
Deadlocked(p, q) == p # q /\ WaitsOn(p, q) /\ WaitsOn(q, p)

\* C3: two actions whose lock lists share two names in different orders can end
\* up each holding one shared mutex and waiting for the other; from such a
\* state neither ever leaves Locks.Lock, so neither backend starts.
C3_DeadlockForever ==
    [][\A p, q \in Pipes : Deadlocked(p, q) => Deadlocked(p, q)']_vars

\* C3 witness: the deadlock is reached, by the two actions whose lists name the
\* same two locks in different orders.
C3_Witness ==
    \E p, q \in Pipes :
        /\ Deadlocked(p, q)
        /\ ActionOf(p).Locks = <<"x", "y">>
        /\ ActionOf(q).Locks = <<"y", "x">>

\* C4: a burst of events of a debounced action, each less than the delay after
\* the one before, causes exactly one run request, so never a second one.
C4_OneRequestPerBurst ==
    \A p \in Pipes : burst[p] = "open" => reqs[p] <= 1

WaitsForRoom(g) ==
    disp[g].pc = "send" /\ Len(trigger[<<g, disp[g].i>>]) >= TriggerCap

\* C6 as stated: the supervisor never waits for space in an action's event
\* channel.
C6_NeverWaits == \A g \in Gens : ~WaitsForRoom(g)

\* C6 amended: an action's event channel never holds more than one event; when
\* it is full the supervisor stays in the send, signalling nothing, until the
\* intake loop has taken the pending event, and the event is then enqueued.
C6_WaitsThenEnqueues ==
    [][/\ \A p \in Pipes : Len(trigger'[p]) <= TriggerCap
       /\ \A g \in Gens :
            /\ WaitsForRoom(g) => disp'[g] = disp[g]
            /\ (disp[g].pc = "send" /\ disp'[g] # disp[g])
                => (trigger'[<<g, disp[g].i>>] = <<disp[g].e>> /\ sig' = sig)]_vars

\* C6 witness: a matching event arrived while the action's channel was full and
\* the supervisor is waiting in the send.
C6_Witness == \E g \in Gens : WaitsForRoom(g)

\* Every goroutine of the pipelines of session g has returned.
PipelinesEnded(g) ==
    \A p \in Pipes : p[1] = g => (ipc[p] \in {"done", "off"} /\ rpc[p] \in {"done", "off"})

\* C7: once a write to the configuration file has cancelled a session, every
\* action pipeline of that session terminates and a new session starts (unless
\* the new watcher cannot be built, which ends the process).
C7_SelfReload ==
    \A g \in Gens :
        cancelled[g] ~> (~Alive \/ (gen > g /\ PipelinesEnded(g)))

\* C8: once the session context is cancelled, every in-flight run of the session
\* ends and each action's intake loop and run loop exit, whatever the backend.
C8_CancelTerminates ==
    \A g \in Gens : cancelled[g] ~> (~Alive \/ PipelinesEnded(g))

\* C9: an action whose Run returned an error has the error reported with it and
\* keeps both loops: the run loop ends only after close(run), the intake loop
\* only after the session context is cancelled.
C9_FailureIsolation ==
    \A p \in errs :
        /\ rpc[p] = "done" => runClosed[p]
        /\ ipc[p] = "done" => cancelled[p[1]]
        /\ rpc[p] # "done" => rpc[p] \in {"idle", "lock", "start", "exec"}

\* C9 witness: in a live session an action that failed before is running again.
C9_Witness ==
    \E p \in errs : rpc[p] = "exec" /\ inflight[p] = 1 /\ ~cancelled[p[1]]

\* C10: Action.Match accepts e exactly when the filter yields all or any and the
\* ignore filter is absent or does not yield both all and any.
C10_MatchIff ==
    mOut.called =>
        (mOut.result <=>
            /\ (FilterMatch(mIn.f, mIn.e).all \/ FilterMatch(mIn.f, mIn.e).any)
            /\ (~mIn.ig.present
                \/ ~(FilterMatch(mIn.ig.f, mIn.e).all /\ FilterMatch(mIn.ig.f, mIn.e).any)))

\* C10 witness: the ignore filter matches the event only in part (any without
\* all) and the event is accepted.
C10_Witness ==
    /\ mOut.called /\ mOut.result
    /\ mIn.ig.present
    /\ FilterMatch(mIn.ig.f, mIn.e).any
    /\ ~FilterMatch(mIn.ig.f, mIn.e).all

\* The predicates a filter configures, and whether the event satisfies them:
\* the extension is in the set, the operation is in the set, at least one
\* pattern glob-matches the path.
ExtConfigured(f) == ~f.extensions.nil
OpsConfigured(f) == ~f.ops.nil
PathsConfigured(f) == Len(f.Paths) > 0
NoPredicate(f) == ~ExtConfigured(f) /\ ~OpsConfigured(f) /\ ~PathsConfigured(f)
ExtSatisfied(f, e) == Ext(e.Name) \in f.extensions.keys
OpSatisfied(f, e) == e.Op \in f.ops.keys
PathSatisfied(f, e) == \E i \in 1..Len(f.Paths) : GlobMatch(f.Paths[i], e.Name)

\* C11: Filter.Match returns all = true exactly when every configured
\* predicate is satisfied by the event (a filter with none configured
\* included); predicates that are not configured do not count.
C11_AllIffConfiguredSatisfied ==
    fOut.called =>
        (fOut.all <=>
            /\ ExtConfigured(mIn.f) => ExtSatisfied(mIn.f, mIn.e)
            /\ OpsConfigured(mIn.f) => OpSatisfied(mIn.f, mIn.e)
            /\ PathsConfigured(mIn.f) => PathSatisfied(mIn.f, mIn.e))

\* C12: Filter.Match returns any = true exactly when at least one configured
\* predicate is satisfied by the event.
C12_AnyIffSomeSatisfied ==
    fOut.called =>
        (fOut.any <=>
            \/ ExtConfigured(mIn.f) /\ ExtSatisfied(mIn.f, mIn.e)
            \/ OpsConfigured(mIn.f) /\ OpSatisfied(mIn.f, mIn.e)
            \/ PathsConfigured(mIn.f) /\ PathSatisfied(mIn.f, mIn.e))

\* C13: the path predicate computed by Filter.Match is true exactly when at
\* least one of the filter's patterns glob-matches the event's path.
C13_PathIffSomePatternMatches ==
    fOut.called => (fOut.pathsOK <=> PathSatisfied(mIn.f, mIn.e))

\* The action's ignore filter is present and yields all and any on the event.
IgnoredByAction(ig, e) ==
    ig.present /\ FilterMatch(ig.f, e).all /\ FilterMatch(ig.f, e).any

\* C16 as stated: an action whose filter has no predicate configured accepts
\* every event.
C16_EmptyFilterFires ==
    (mOut.called /\ NoPredicate(mIn.f)) => mOut.result

\* C16 amended: a filter with no predicate configured yields all = true on
\* every event, and an action with such a filter accepts every event except
\* those its own ignore filter matches with all and any.
C16_EmptyFilterAll ==
    /\ (fOut.called /\ NoPredicate(mIn.f)) => fOut.all
    /\ (mOut.called /\ NoPredicate(mIn.f))
          => (mOut.result <=> ~IgnoredByAction(mIn.ig, mIn.e))

\* C16 witness: Filter.Match and Action.Match were both called with a filter
\* that configures nothing; all is true and the action accepts the event.
C16_Witness ==
    /\ fOut.called /\ mOut.called /\ NoPredicate(mIn.f)
    /\ fOut.all /\ mOut.result

\* C17: for a filter with at least one predicate configured, any = false
\* implies all = false; all = true with any = false happens only for the
\* filter with no predicate.
C17_AnyFalseAllFalse ==
    fOut.called =>
        /\ (~NoPredicate(mIn.f) /\ ~fOut.any) => ~fOut.all
        /\ (fOut.all /\ ~fOut.any) => NoPredicate(mIn.f)

\* C17 witness: a filter with a predicate configured was matched against an
\* event that satisfies none; any and all are both false.
C17_Witness ==
    fOut.called /\ ~NoPredicate(mIn.f) /\ ~fOut.any /\ ~fOut.all

\* The events an action's pipeline holds: those in its event channel.
Pending(p) == SeqToSet(trigger[p])

\* Some filter of the global ignore list configures only an extension set, and
\* the extension of e is in it.
ExtIgnored(c, e) ==
    \E i \in 1..Len(c.Ignore) :
        /\ ExtConfigured(c.Ignore[i])
        /\ ~OpsConfigured(c.Ignore[i]) /\ ~PathsConfigured(c.Ignore[i])
        /\ ExtSatisfied(c.Ignore[i], e)

\* C14: an event whose extension is in the set of an ignore filter that
\* configures only extensions reaches no action.
C14_IgnoreExtSuppresses ==
    \A p \in Pipes : \A e \in Pending(p) : ~ExtIgnored(ConfigOf(p[1]), e)

\* The three global reasons to drop an event: it fails the top-level filter
\* (neither all nor any), some filter of the ignore list yields all and any,
\* or a raw ignore glob matches its path.
FailsTopFilter(c, e) == ~FilterMatch(c.Filter, e).all /\ ~FilterMatch(c.Filter, e).any
FullyIgnored(c, e) ==
    \E i \in 1..Len(c.Ignore) :
        FilterMatch(c.Ignore[i], e).all /\ FilterMatch(c.Ignore[i], e).any
GlobIgnored(c, e) == \E i \in 1..Len(c.IgnoreWatch) : GlobMatch(c.IgnoreWatch[i], e.Name)
Suppressed(c, e) == FailsTopFilter(c, e) \/ FullyIgnored(c, e) \/ GlobIgnored(c, e)
\* The actions of c whose Match accepts e.
Accepting(c, e) == {a \in 1..Len(c.Actions) : ActionMatch(c.Actions[a], e)}

IgnoringCall ==
    nOut.called /\ nIn.kind \in ProcessKinds /\ nIn.IgnoreSignals

\* C19 as stated: with ignoreSignals set Notify sends no signal and reports
\* signalled = true for every notification, whether or not a process has been
\* started.
C19_IgnoreReportsTrue ==
    IgnoringCall => (nOut.sent = "none" /\ nOut.signalled)

\* C19 amended: with ignoreSignals set Notify never sends a signal; it reports
\* signalled = true once the backend's command has a process, and false while
\* no process has been started.
C19_IgnoreNeverSignals ==
    IgnoringCall =>
        /\ nOut.sent = "none"
        /\ nOut.signalled <=> nIn.command \in {"live", "done"}

\* C19 witness: Notify was called with ignoreSignals set while the process is
\* live; nothing was sent and it reported true.
C19_Witness ==
    IgnoringCall /\ nIn.command = "live" /\ nOut.signalled /\ nOut.sent = "none"

\* The signal a name stands for: the one parseSignal gives it, SIGKILL for a
\* name it does not know.
Named(name) == IF name \in ParseSignal THEN name ELSE "SIGKILL"

\* C20: the signal Notify sends is the action-level one when the action
\* configures a signal, otherwise the globally configured one, otherwise
\* SIGKILL; the action-level choice takes precedence over the global one.
C20_SignalResolution ==
    (nOut.called /\ nOut.sent # "none") =>
        nOut.sent = IF nIn.Signal # "" THEN Named(nIn.Signal)
                    ELSE IF nIn.globalSignal # "" THEN Named(nIn.globalSignal)
                    ELSE "SIGKILL"

\* C20 witness: action and configuration name different signals and Notify
\* sent the action's.
C20_Witness ==
    /\ nOut.called
    /\ nIn.Signal = "SIGHUP" /\ nIn.globalSignal = "SIGTERM"
    /\ nOut.sent = "SIGHUP"

\* The intake loop of p calls Notify on a backend that runs a process and does
\* not ignore signals.
NotifyCall(p) ==
    /\ ipc[p] = "notify" /\ ipc'[p] = "slot"
    /\ ActionOf(p).kind \in ProcessKinds /\ ~ActionOf(p).IgnoreSignals

\* C18: a Notify called while the action has a live process delivers the
\* signal to it, and a Notify called when the process has exited (or none was
\* started) sends nothing.
C18_SignalForwarded ==
    [][\A p \in Pipes :
        /\ (NotifyCall(p) /\ proc[p] = "live") => sig'[p]
        /\ (NotifyCall(p) /\ proc[p] # "live") => sig'[p] = sig[p]]_vars


\* C29: the watcher of a session is closed before main loads the configuration
\* again and creates the watcher of the next session, so that at no time two
\* watchers are open.
OpenWatchers == {g \in Gens : watcher[g] = "open"}
C29_SessionOrdering ==
    /\ [](Cardinality(OpenWatchers) <= 1)
    /\ [][gen' # gen => /\ watcher[gen] = "closed"
                        /\ OpenWatchers = {}
                        /\ OpenWatchers' = {gen'}]_vars
C29_Witness == gen = 1 /\ watcher[0] = "closed" /\ watcher[1] = "open"


\* C28: an action without a delay never waits for a tick: an event leaves its
\* trigger channel only into the select of the intake loop, the Notify call
\* follows at once, and after it the select on run leaves exactly one run
\* request in the channel.
ZeroDelay(p) == Started(p) /\ ActionOf(p).delay = 0
C28_ZeroDelay ==
    [][\A p \in Pipes : ZeroDelay(p) =>
          /\ ipc'[p] # "wait"
          /\ tick'[p] = 0
          /\ Len(trigger'[p]) < Len(trigger[p]) =>
                ipc[p] = "select" /\ ipc'[p] = "notify"
          /\ (ipc[p] = "notify" /\ ipc'[p] # "notify") => ipc'[p] = "slot"
          /\ (ipc[p] = "slot" /\ ipc'[p] # "slot") =>
                ipc'[p] = "select" /\ run'[p] = 1]_vars
C28_Witness == \E p \in Pipes : ZeroDelay(p) /\ ipc[p] = "slot" /\ run[p] = 0


\* C27: a filter whose only configured extension is spelled "go", ".go", ".GO"
\* or " Go " matches by extension exactly the events whose file name has an
\* extension that is "go" once lower-cased.
GoSpellings ==
    {<<"g", "o">>, <<".", "g", "o">>, <<".", "G", "O">>, <<" ", "G", "o", " ">>}
\* The part of the last path element after its last dot, none without a dot.
RECURSIVE Suffix(_)
Suffix(name) ==
    IF name = << >> \/ name[Len(name)] = "/" THEN [dot |-> FALSE, s |-> << >>]
    ELSE IF name[Len(name)] = "." THEN [dot |-> TRUE, s |-> << >>]
    ELSE LET r == Suffix(SubSeq(name, 1, Len(name) - 1))
         IN [dot |-> r.dot, s |-> Append(r.s, name[Len(name)])]
LowersToGo(name) ==
    /\ Suffix(name).dot
    /\ Len(Suffix(name).s) = 2
    /\ Suffix(name).s[1] \in {"g", "G"}
    /\ Suffix(name).s[2] \in {"o", "O"}
C27_ExtensionSpelling ==
    (xOut.called /\ xIn.Extensions[1] \in GoSpellings) =>
        (xOut.any <=> LowersToGo(xIn.e.Name))
C27_Witness ==
    /\ xOut.called
    /\ xIn.Extensions = << <<" ", "G", "o", " ">> >>
    /\ xIn.e.Name = <<"a", "/", "b", ".", "G", "O">>
    /\ xOut.any


\* C30: the lock registry only grows: an entry, once stored, is never removed
\* or replaced, and every goroutine of a Locks.Lock call that has looked a name
\* up holds that name's one mutex, so that two calls that meet on a name the
\* registry did not know contend on the same mutex.
LooksUp(p, k) == ref[p][k] # 0
C30_RegistryAppendOnly ==
    /\ [][\A n \in LockNames : registry[n] # 0 => registry'[n] = registry[n]]_vars
    /\ [](\A p \in Pipes, k \in 1..MaxLocks :
            LooksUp(p, k) => ref[p][k] = registry[ActionOf(p).Locks[k]])
\* C30 witness: p inserted the mutex of a name, q found it and locked it first,
\* and p now waits for it.
C30_Witness ==
    \E p, q \in Pipes, k, j \in 1..MaxLocks :
        /\ p # q
        /\ LooksUp(p, k)
        /\ LooksUp(q, j)
        /\ ActionOf(p).Locks[k] = ActionOf(q).Locks[j]
        /\ ref[p][k] = ref[q][j]
        /\ k \notin acq[p]
        /\ j \in acq[q]


\* C23: the backend of an action executes only while the Lock call of its Run
\* holds the mutex of every name of its lock list; outside Action.Run, after
\* a return with or without an error, the action holds none, and a mutex is
\* locked only while some action holds it.
Holds(p, n) == \E k \in acq[p] : ActionOf(p).Locks[k] = n
OutsideRun(p) == rpc[p] \in {"idle", "done"}
C23_LockBracket ==
    /\ \A p \in Pipes : (Started(p) /\ InBackend(p)) =>
          \A k \in LockIdx(p) : Holds(p, ActionOf(p).Locks[k]) /\ mutex[ActionOf(p).Locks[k]]
    /\ \A p \in Pipes : (Started(p) /\ OutsideRun(p)) => acq[p] = {}
    /\ \A n \in LockNames : mutex[n] => \E p \in Pipes : Started(p) /\ Holds(p, n)
\* C23 witness: one action returned from Run with an error and holds nothing,
\* and another action executes its backend holding the names they share.
C23_Witness ==
    \E p, q \in Pipes :
        /\ Started(p) /\ Started(q)
        /\ p \in errs /\ OutsideRun(p) /\ LockIdx(p) # {}
        /\ InBackend(q) /\ SharesLock(p, q)


\* C24: the process ends only where main finds that the watcher of a new
\* session cannot be built; no step of an action's pipeline ends it.
C24_OnlyWatcherFailureIsFatal ==
    [][(Alive /\ ~Alive') => (mainpc = "loop" /\ mainpc' = "exited")]_vars


\* C21: the intake loop of an action takes the events from its trigger channel
\* in the order in which the watcher delivered them: each event taken is a
\* later one than the one taken before, and each event sent into the channel
\* is a later one than every event waiting there or taken already.
Times(q) == {q[i].Time : i \in 1..Len(q)}
AtRest ==
    /\ Traced(0)
    /\ disp[0].pc = "idle"
    /\ trigger[<<0, 1>>] = << >>
    /\ ipc[<<0, 1>>] = "select"
    /\ run[<<0, 1>>] = 0
    /\ rpc[<<0, 1>>] = "idle"
\* The one event of the session was a write of a go file.
SingleEvent == hist.recv = 1 /\ hist.offered = 1

\* C22 as stated: after a session in which the only event is one write of a go
\* file, the command of the zero-delay exec action has been executed exactly
\* once and exactly one record is on stdout.
C22_ExecutedOnce ==
    (AtRest /\ ~quiet /\ SingleEvent) => (hist.execs = 1 /\ hist.records = 1)

\* C22: the action runs once when the session starts, before any event, and
\* an event sent to it causes at most one more run: when the session is at
\* rest the command has been executed at least once and at most once more
\* than events were sent to the action, and after a single write of a go
\* file exactly one record is on stdout.
C22_StartupRunThenEvent ==
    AtRest =>
        /\ hist.execs >= 1
        /\ hist.execs <= 1 + hist.offered
        /\ (~quiet /\ SingleEvent) => hist.records = 1
\* C22 witness: one write of a go file, two executions, one record.
C22_Witness ==
    AtRest /\ ~quiet /\ SingleEvent /\ hist.execs = 2 /\ hist.records = 1

\* C26 as stated: without -quiet every event received from the watcher has
\* its record on stdout once onEvent has returned for it.
C26_EveryEventRecorded ==
    (Traced(0) /\ ~quiet /\ disp[0].pc = "idle") => hist.records = hist.recv

\* C26: without -quiet exactly the events that shouldNotify lets pass have one
\* record on stdout each, written when the sends to the actions are done;
\* with -quiet there is no record.
C26_PassedEventsRecorded ==
    Traced(0) =>
        hist.records = IF quiet THEN 0
                       ELSE IF disp[0].pc = "idle" THEN hist.passed
                       ELSE hist.passed - 1
\* C26 witness: three events, one dropped by the top-level filter, one that
\* passed and matched no action, one sent to the action: two records.
C26_Witness ==
    /\ Traced(0) /\ ~quiet /\ disp[0].pc = "idle"
    /\ hist.recv = 3 /\ hist.passed = 2 /\ hist.offered = 1 /\ hist.records = 2


\* C25: the configuration a reload builds consists of what the file, as it is
\* at the reload, and the command-line flags specify, and of nothing else: it
\* is the configuration the same file and flags give when loaded into a
\* configuration that held nothing before.
C25_ReloadIsFresh ==
    (rOut.sessions = 2 /\ rIn.second.exists) => rOut.config = rOut.fresh

\* C33: an action-level signal name that parseSignal does not know resolves to
\* SIGKILL, whatever the global signal is, and with no action-level name a
\* global name that parseSignal does not know resolves to SIGKILL as well.
C33_UnknownSignal ==
    (nOut.called /\ nOut.sent # "none") =>
        /\ (nIn.Signal # "" /\ nIn.Signal \notin ParseSignal) => nOut.sent = "SIGKILL"
        /\ (nIn.Signal = "" /\ nIn.globalSignal \notin ParseSignal) => nOut.sent = "SIGKILL"

\* C33 witness: the action names a signal parseSignal does not know, the
\* configuration names SIGTERM, and Notify sent SIGKILL.
C33_Witness ==
    /\ nOut.called
    /\ nIn.Signal = "SIGUSR1" /\ nIn.globalSignal = "SIGTERM"
    /\ nOut.sent = "SIGKILL"

\* C35: the run channel of an action never holds more than one token, and
\* whenever the intake loop is at its select on the run channel the send it
\* performs finds room, whatever the run loop is doing.
C35_RunSlotBound ==
    \A p \in Pipes :
        /\ run[p] <= RunCap
        /\ ipc[p] = "slot" => SlotAfter(run[p]) <= RunCap

\* C35 witness: the intake loop is at the select on a full run channel while
\* the run loop waits for its locks.
C35_Witness ==
    \E p \in Pipes : ipc[p] = "slot" /\ run[p] = RunCap /\ rpc[p] = "lock"

\* The intake goroutine of p is inside Notify, which reads a.command, and the
\* run goroutine of p is inside Run, about to store a new command in it.
ReadsCommand(p) == ipc[p] = "notify" /\ ActionOf(p).kind \in ProcessKinds
WritesCommand(p) == rpc[p] = "start" /\ ActionOf(p).kind \in ProcessKinds

\* C32: the two goroutines of an action share no mutable state outside
\* channels: Notify never reads the backend's process handle at a time when
\* Run writes it.
C32_NoSharedCommand ==
    \A p \in Pipes : ~(ReadsCommand(p) /\ WritesCommand(p))

\* The run goroutine of p leaves Action.Run's lock phase in this step: the
\* Run of the backend is invoked.
BackendBegins(p) == rpc[p] = "start" /\ rpc'[p] # "start"

\* C37: once the context of a session is cancelled, no Run of a backend
\* begins for an action of that session, also when a run request was pending
\* in the run channel when the intake loop closed it.
C37_NoRunAfterCancel ==
    [][\A p \in Pipes : cancelled[p[1]] => ~BackendBegins(p)]_vars

\* p and q run the same configured action in two different sessions.
SameAction(p, q) == p[1] # q[1] /\ p[2] = q[2] /\ cfg[p[1]] = cfg[q[1]]

\* C38: across a reload the run loop of the cancelled session and the run
\* loop of the new session never execute the backend of the same configured
\* action at the same time, whether or not the action declares locks.
C38_CrossSessionExclusive ==
    \A p, q \in Pipes :
        SameAction(p, q) => ~(rpc[p] = "exec" /\ rpc[q] = "exec")

\* No pipeline other than p holds or requests a lock.
Uncontended(p) ==
    \A q \in Pipes \ {p} : rpc[q] \in {"off", "idle", "done"} \/ LockIdx(q) = {}

\* C40: a call of Locks.Lock made while no other action holds or requests any
\* of the names does not come to a halt before it returns: as long as it has
\* names left to lock, the mutex of one of them is free.  This is stated for
\* every list of names, one that repeats a name included.
C40_UncontendedLockReturns ==
    \A p \in Pipes :
        (rpc[p] = "lock" /\ Uncontended(p)) =>
            \E k \in LockIdx(p) \ acq[p] : ~mutex[ActionOf(p).Locks[k]]

\* An event that meets the three conditions of the reload test in session g.
ReloadEvent(g, e) ==
    /\ ConfigOf(g).Self # "false"
    /\ e.Op = "write"
    /\ Abs(e.Name) = ConfigOf(g).configPathAbs

\* C34: a step cancels a session's context only when it is the handling of an
\* event with watchSelf not disabled, the operation write and the absolute
\* path of the loaded configuration file; no other event cancels.
C34_ReloadExclusive ==
    [][cancelled' # cancelled =>
         \E g \in Gens : \E e \in EventsFor(cfg[g]) :
            EventArrive(g, e) /\ ReloadEvent(g, e)]_vars

\* C34 witness: a write of the configuration file cancelled the first
\* session; the second one has seen the file's mode change and is not
\* cancelled.
C34_Witness ==
    /\ cancelled[0] /\ ~cancelled[1]
    /\ watcher[1] = "open"
    /\ CfgChmod \in dropped[1]

\* The watcher-event goroutine of the live session g is inside onEvent, at a
\* send on an action's trigger channel.
Sending(g) == disp[g].pc = "send" /\ ~cancelled[g]

\* C39: in a live session the watcher-event goroutine is never blocked for
\* ever in onEvent: as long as the process runs, every send on a trigger
\* channel goes through and onEvent returns, whatever the run loops are doing.
C39_DispatchIsolation ==
    \A g \in Gens : Sending(g) ~> (disp[g].pc = "idle" \/ cancelled[g] \/ ~Alive)

\* C39 witness: onEvent has returned to the event loop after it delivered a
\* later event to two actions, of which one is inside its backend and the
\* other waits for the lock the first one holds.
C39_Witness ==
    \E p, q \in Pipes :
        /\ disp[p[1]].pc = "idle" /\ ~cancelled[p[1]]
        /\ rpc[p] = "lock" /\ rpc[q] = "exec"
        /\ trigger[p] # << >> /\ trigger[q] # << >>

\* The intake loop of p has taken an event from the trigger channel and has
\* not yet passed its select on the run channel.
EventTaken(p) == ipc[p] \in {"wait", "notify", "slot"}
\* The run loop of p has called Action.Run, which has not started the
\* backend yet.
RunBegun(p) == rpc[p] \in {"lock", "start"}

\* C36: when every process that is started exits and no lock is awaited for
\* ever, every event the intake loop of an action takes is followed by the
\* beginning of a Run of that action.  The formula states what this implies
\* in terms of states: from the taking of the event on, the run loop is at
\* some time at the beginning of a Run.
C36_TriggerLiveness ==
    \A p \in Pipes : EventTaken(p) ~> RunBegun(p)

\* n and the directories it lies in, up to the watch root, which is left out.
RECURSIVE Chain(_)
Chain(n) == IF n = "r" THEN {} ELSE {n} \cup Chain(ParentOf(n))

\* n is matched by an ignore glob or by an ignore filter.
Ignored(n) == ShouldExclude(wIn, WalkPath(n))

\* The walk of the watch root has come to its end.
WalkDone == wOut.called /\ wOut.todo = << >>

\* C31: after the walk at the start of a session a directory under the watch
\* root is registered with the watcher if and only if neither it nor any
\* directory it lies in below the root is matched by an ignore glob or an
\* ignore filter; in particular an ignored file beside it does not keep it
\* from being registered.
C31_StartupRegistration ==
    WalkDone =>
        \A n \in Nodes :
            wIn.kind[n] = "dir" =>
                (n \in wOut.registered <=> \A a \in Chain(n) : ~Ignored(a))

====
